---- MODULE Spec2Model ----
(***************************************************************************)
(* Model of the NVR table extractor: NVRPDFExtractor.extract_nvr_tables    *)
(* (the page scan: heading classification, band attribution, cross-page    *)
(* continuation) and NVRPDFExtractor.clean_and_process_table_data (the    *)
(* row normalizer), src/functions/scripts/extract_pdf_tables.py; of its two *)
(* callers, the command-line driver main() of the same file and the HTTP   *)
(* handler extractPdfTables of src/python-functions/main.py.               *)
(*                                                                         *)
(* Python values are represented as follows.                               *)
(*   None (a cell, last_section_type)  the string None                     *)
(*   section["header"]                 <<>> for None, <<h>> for the list h *)
(*   a list                            a sequence                          *)
(*   table.bbox                        a 4-tuple; bbox[1], bbox[3] of the  *)
(*                                     code are bbox[2], bbox[4] here      *)
(*   a dict with string keys           a function on the set of its keys   *)
(*   a value that may be absent        <<>> when absent, <<v>> when v      *)
(*   a URL                             the sequence of its characters      *)
(***************************************************************************)
EXTENDS Integers, Sequences, FiniteSets, TLC

VARIABLES
    pc,                 \* "scan": in the page loop; "done": tables_data returned
    page_num,           \* number of the page processed last (0 before the first)
    page,               \* the page processed last: search hits, tables, height
    headers_on_page,    \* the heading list built for that page, after the sort
    outputs,            \* the four Section accumulators
    last_section_type,  \* the running section, or None
    tables_data,        \* the returned list of OutputTables
    cleared_at,         \* history: the page whose mismatching table cleared the
                        \* running section since the last page with headings, or 0
    exception,          \* the exception in flight or caught, if any
    caller,             \* who runs the scan: "core" (nobody), "cli" or "http"
    pdf,                \* extractor.pdf: "none", "open" or "closed"
    request,            \* the HTTP request, if any
    response,           \* the HTTP response, if any
    result,             \* the result dict of main(), if built
    output_file,        \* the JSON document at output_path, if written
    exit_code           \* the exit status of the process, once it has ended

\* the state of the callers
driver == <<caller, pdf, request, response, result, output_file, exit_code>>

vars == <<pc, page_num, page, headers_on_page, outputs, last_section_type, tables_data,
          cleared_at, exception, caller, pdf, request, response, result, output_file,
          exit_code>>

----------------------------------------------------------------------------
(* Bounds of the model *)

MaxPages == 3

MaxGeomPages == 2

\* rows of the section handed to the row normalizer
MaxNormRows == 2

----------------------------------------------------------------------------
(* Values *)

None == "None"

NoHeader == <<>>

\* an absent value
Absent == <<>>

SectionTypes == {"flora", "fauna", "flora_range", "fauna_range"}

\* insertion order of the outputs dict, the order of outputs.items()
SectionOrder == <<"flora", "fauna", "flora_range", "fauna_range">>

\* the tolerance of the range / plain deduplication
Tolerance == 5

EmptySection == [rows |-> <<>>, header |-> NoHeader, page_numbers |-> <<>>]

InitOutputs == [s \in SectionTypes |-> EmptySection]

Abs(x) == IF x < 0 THEN -x ELSE x

Range(f) == {f[i] : i \in DOMAIN f}

\* "if x:" for a header: neither None nor the empty list
Truthy(header) == header # NoHeader /\ Len(header[1]) > 0

----------------------------------------------------------------------------
(* Heading classification *)

Heading(type, hit) == [type |-> type, bottom |-> hit.bottom, top |-> hit.top]

RECURSIVE MapHits(_, _)
MapHits(type, hits) ==
    IF hits = <<>> THEN <<>>
    ELSE <<Heading(type, Head(hits))>> \o MapHits(type, Tail(hits))

\* NearRange with the bug "only a hit at the very same top is a duplicate"
NearRangeExact(hit, range_hits) ==
    \E k \in DOMAIN range_hits : range_hits[k].top = hit.top

\* not any(abs(r_hit['top'] - hit['top']) < 5 for r_hit in range_hits)
NearRange(hit, range_hits) ==
    \E k \in DOMAIN range_hits : Abs(range_hits[k].top - hit.top) < Tolerance

KeepPlain(hit, range_hits) == ~NearRange(hit, range_hits)

RECURSIVE PlainHeadings(_, _, _)
PlainHeadings(type, hits, range_hits) ==
    IF hits = <<>> THEN <<>>
    ELSE (IF KeepPlain(Head(hits), range_hits)
             THEN <<Heading(type, Head(hits))>> ELSE <<>>)
         \o PlainHeadings(type, Tail(hits), range_hits)

\* list.sort(key=top): stable, by insertion from the left
RECURSIVE InsertByTop(_, _)
InsertByTop(sorted, h) ==
    IF sorted = <<>> THEN <<h>>
    ELSE IF Head(sorted).top <= h.top
         THEN <<Head(sorted)>> \o InsertByTop(Tail(sorted), h)
         ELSE <<h>> \o sorted

\* SortByTop with the bug "the list is left in the order of the searches"
SortByTopKeepOrder(hs) == hs

RECURSIVE SortByTop(_)
SortByTop(hs) ==
    IF hs = <<>> THEN <<>>
    ELSE InsertByTop(SortByTop(SubSeq(hs, 1, Len(hs) - 1)), hs[Len(hs)])

\* HeadersOnPage with the bug "a plain hit is compared with the range hits of
\* both kinds"
HeadersOnPageAnyRange(pg) ==
    IF ~pg.verified_records THEN <<>>
    ELSE SortByTop(
            MapHits("fauna_range", pg.fauna_range_hits)
         \o MapHits("flora_range", pg.flora_range_hits)
         \o PlainHeadings("fauna", pg.fauna_hits, pg.fauna_range_hits \o pg.flora_range_hits)
         \o PlainHeadings("flora", pg.flora_hits, pg.fauna_range_hits \o pg.flora_range_hits))

HeadersOnPage(pg) ==
    IF ~pg.verified_records THEN <<>>
    ELSE SortByTop(
            MapHits("fauna_range", pg.fauna_range_hits)
         \o MapHits("flora_range", pg.flora_range_hits)
         \o PlainHeadings("fauna", pg.fauna_hits, pg.fauna_range_hits)
         \o PlainHeadings("flora", pg.flora_hits, pg.flora_range_hits))

----------------------------------------------------------------------------
(* Heading mode: band attribution *)

TopBoundary(hs, i) == hs[i].bottom

BottomBoundary(hs, i, pg) == IF i + 1 <= Len(hs) THEN hs[i + 1].top ELSE pg.height

\* InBand with the bug "overlap instead of containment"
InBandOverlap(table, top_boundary, bottom_boundary) ==
    table.bbox[4] >= top_boundary /\ table.bbox[2] <= bottom_boundary

\* InBand with the bug "the lower boundary is excluded"
InBandHalfOpen(table, top_boundary, bottom_boundary) ==
    table.bbox[2] >= top_boundary /\ table.bbox[4] < bottom_boundary

\* table.bbox[1] >= top_boundary and table.bbox[3] <= bottom_boundary
InBand(table, top_boundary, bottom_boundary) ==
    table.bbox[2] >= top_boundary /\ table.bbox[4] <= bottom_boundary

\* RowsToAppend with the bug "only a leading header row is dropped"
RowsToAppendSkipFirst(content, header) ==
    IF content[1] = header THEN Tail(content) ELSE content

\* "for row in content: if row != header: rows.append(row)"
RowsToAppend(content, header) == SelectSeq(content, LAMBDA row : row # header)

\* AdoptHeader with the bug "every attributed table sets the header"
AdoptHeaderOverwrite(section, content) == <<content[1]>>

AdoptHeader(section, content) ==
    IF section.header = NoHeader THEN <<content[1]>> ELSE section.header

\* AttributeTable with the bug "the page number is recorded before the table
\* is found to hold rows"
AttributeTablePageFirst(section, content, pn) ==
    IF content = <<>> THEN [section EXCEPT !.page_numbers = Append(@, pn)]
    ELSE LET header == AdoptHeader(section, content)
         IN  [rows         |-> section.rows \o RowsToAppend(content, header[1]),
              header       |-> header,
              page_numbers |-> Append(section.page_numbers, pn)]

\* one table attributed to a section under a heading
AttributeTable(section, content, pn) ==
    IF content = <<>> THEN section
    ELSE LET header == AdoptHeader(section, content)
         IN  [rows         |-> section.rows \o RowsToAppend(content, header[1]),
              header       |-> header,
              page_numbers |-> Append(section.page_numbers, pn)]

\* the inner loop "for table in tables_on_page", from table k on
RECURSIVE BandTables(_, _, _, _, _, _)
BandTables(outs, type, tables, k, band, pn) ==
    IF k > Len(tables) THEN outs
    ELSE LET next == IF InBand(tables[k], band[1], band[2])
                        THEN [outs EXCEPT ![type] =
                                  AttributeTable(outs[type], tables[k].content, pn)]
                        ELSE outs
         IN  BandTables(next, type, tables, k + 1, band, pn)

\* the outer loop "for i, header in enumerate(headers_on_page)", from heading i on
RECURSIVE HeadingLoop(_, _, _, _, _)
HeadingLoop(outs, hs, i, pg, pn) ==
    IF i > Len(hs) THEN outs
    ELSE HeadingLoop(
            BandTables(outs, hs[i].type, pg.tables, 1,
                       <<TopBoundary(hs, i), BottomBoundary(hs, i, pg)>>, pn),
            hs, i + 1, pg, pn)

----------------------------------------------------------------------------
(* Continuation mode *)

Matches(content, header) == content # <<>> /\ Len(content[1]) = Len(header)

ContinueTable(section, content, header, pn) ==
    [section EXCEPT !.page_numbers = Append(@, pn),
                    !.rows = @ \o RowsToAppend(content, header)]

\* OnMismatch with the bug "the running section survives a mismatch"
OnMismatchKeep(last) == last

\* what a mismatching table does to the running section: cleared
OnMismatch(last) == None

\* ContinuationLoop with the bug "continue instead of break": a mismatching
\* table clears the running section but later tables are still absorbed
RECURSIVE ContinuationLoopNoBreak(_, _, _, _, _, _)
ContinuationLoopNoBreak(section, last, tables, k, header, pn) ==
    IF k > Len(tables) THEN [section |-> section, last |-> last, broke |-> FALSE]
    ELSE IF Matches(tables[k].content, header)
         THEN ContinuationLoopNoBreak(ContinueTable(section, tables[k].content, header, pn),
                                      last, tables, k + 1, header, pn)
         ELSE [ContinuationLoopNoBreak(section, last, tables, k + 1, header, pn)
                  EXCEPT !.last = OnMismatch(last), !.broke = TRUE]

\* "for table in tables_on_page" with its break, from table k on; the result
\* is the section, the running-section state and whether the loop was broken
RECURSIVE ContinuationLoop(_, _, _, _, _, _)
ContinuationLoop(section, last, tables, k, header, pn) ==
    IF k > Len(tables) THEN [section |-> section, last |-> last, broke |-> FALSE]
    ELSE IF Matches(tables[k].content, header)
         THEN ContinuationLoop(ContinueTable(section, tables[k].content, header, pn),
                               last, tables, k + 1, header, pn)
         ELSE [section |-> section, last |-> OnMismatch(last), broke |-> TRUE]

\* RunningSection with the bug "fauna is assumed when no section is running"
RunningSectionDefault(last) == IF last = None THEN "fauna" ELSE last

\* the section the "elif last_section_type ..." branch works on
RunningSection(last) == last

----------------------------------------------------------------------------
(* Row normalizer: clean_and_process_table_data *)

\* header names h with any(w in h.lower() for w in ['date', 'recorded', 'last']),
\* among the header names of the model
DateColumns == {"Date", "Last Recorded"}

\* parse_dates on the cell strings of the model: the four formats, then the
\* lenient parse, then the string itself
ParseDates(value) ==
    CASE value = "15-Jan-2024" -> "15-01-2024"
      [] value = "15/01/2024"  -> "15-01-2024"
      [] value = "2024-01-15"  -> "15-01-2024"
      [] OTHER                 -> value

\* str.strip() on the cell strings of the model
Strip(value) ==
    CASE value = " x" -> "x"
      [] value = "y " -> "y"
      [] OTHER        -> value

\* "while len(row) < num_columns: row.append(None)": the row after the loop
RECURSIVE Pad(_, _)
Pad(row, num_columns) ==
    IF Len(row) < num_columns THEN Pad(Append(row, None), num_columns) ELSE row

\* row[:num_columns]
Truncate(row, num_columns) ==
    SubSeq(row, 1, IF Len(row) < num_columns THEN Len(row) ELSE num_columns)

CleanRow(row, num_columns) ==
    IF Len(row) # num_columns THEN Truncate(Pad(row, num_columns), num_columns) ELSE row

RECURSIVE CleanRows(_, _)
CleanRows(rows, num_columns) ==
    IF rows = <<>> THEN <<>>
    ELSE <<CleanRow(Head(rows), num_columns)>> \o CleanRows(Tail(rows), num_columns)

\* the rows list after the call: short rows were padded in place
RECURSIVE PaddedInPlace(_, _)
PaddedInPlace(rows, num_columns) ==
    IF rows = <<>> THEN <<>>
    ELSE <<Pad(Head(rows), num_columns)>> \o PaddedInPlace(Tail(rows), num_columns)

CleanValue(header_name, value) ==
    IF value = None \/ value = "" THEN None
    ELSE IF header_name \in DateColumns THEN ParseDates(value)
    ELSE Strip(value)

\* header_name.lower() raises on a None header name; it is evaluated for a
\* value that is neither None nor ''
RowRaises(row, header) ==
    \E c \in DOMAIN header :
        /\ header[c] = None
        /\ (IF c <= Len(row) THEN row[c] ELSE None) \notin {None, ""}

\* processed_row: a dict, so a repeated header name keeps the last value written
ProcessedRow(row, header) ==
    [name \in Range(header) |->
        LET c == CHOOSE c \in DOMAIN header :
                    /\ header[c] = name
                    /\ \A d \in DOMAIN header : header[d] = name => d <= c
        IN  CleanValue(name, IF c <= Len(row) THEN row[c] ELSE None)]

RECURSIVE ProcessedData(_, _)
ProcessedData(cleaned_rows, header) ==
    IF cleaned_rows = <<>> THEN <<>>
    ELSE <<ProcessedRow(Head(cleaned_rows), header)>>
         \o ProcessedData(Tail(cleaned_rows), header)

clean_and_process_table_data(rows, header) ==
    IF header = <<>> \/ rows = <<>>
    THEN [headers |-> <<>>, rows |-> <<>>, processed_data |-> <<>>]
    ELSE LET cleaned_rows == CleanRows(rows, Len(header))
         IN  [headers        |-> header,
              rows           |-> cleaned_rows,
              processed_data |-> ProcessedData(cleaned_rows, header)]

CleanRaises(rows, header) ==
    \E r \in DOMAIN rows : RowRaises(CleanRow(rows[r], Len(header)), header)

----------------------------------------------------------------------------
(* Assembly of the OutputTables after the page loop *)

\* section_name.replace('_', ' ').title()
Title(section_name) ==
    CASE section_name = "flora"       -> "Flora"
      [] section_name = "fauna"       -> "Fauna"
      [] section_name = "flora_range" -> "Flora Range"
      [] section_name = "fauna_range" -> "Fauna Range"

\* "if section_data["rows"] and section_data["header"]"
Emitted(section) == section.rows # <<>> /\ Truthy(section.header)

table_info(section_name, section, table_index) ==
    LET processed_table == clean_and_process_table_data(section.rows, section.header[1])
    IN  [pageNumber     |-> section.page_numbers,
         tableIndex     |-> table_index,
         tableName      |-> section_name,
         description    |-> <<"NVR", Title(section_name), "Data">>,
         headers        |-> processed_table.headers,
         rows           |-> processed_table.rows,
         processed_data |-> processed_table.processed_data,
         record_count   |-> Len(processed_table.processed_data),
         mergedCells    |-> <<>>,
         bbox           |-> <<0, 0, 0, 0>>]

\* "for section_name, section_data in outputs.items()", from the k-th section on;
\* the result is the list so far, the accumulators (short rows are padded in
\* place) and whether clean_and_process_table_data raised
RECURSIVE Assemble(_, _, _)
Assemble(outs, k, tables) ==
    IF k > Len(SectionOrder) THEN [tables |-> tables, outs |-> outs, raised |-> FALSE]
    ELSE LET name    == SectionOrder[k]
             section == outs[name]
         IN  IF ~Emitted(section) THEN Assemble(outs, k + 1, tables)
             ELSE LET padded == [outs EXCEPT ![name].rows =
                                     PaddedInPlace(@, Len(section.header[1]))]
                  IN  IF CleanRaises(section.rows, section.header[1])
                      THEN [tables |-> tables, outs |-> padded, raised |-> TRUE]
                      ELSE Assemble(padded, k + 1,
                                    Append(tables, table_info(name, section, Len(tables))))

----------------------------------------------------------------------------
(* Pages: what the PDF library returns for one page *)

Hit(top, bottom) == [top |-> top, bottom |-> bottom]

Table(top, bottom, content) == [bbox |-> <<0, top, 100, bottom>>, content |-> content]

PageHeight == 100

Page(verified, fauna_range, flora_range, fauna, flora, tables) ==
    [height           |-> PageHeight,
     verified_records |-> verified,
     fauna_range_hits |-> fauna_range,
     flora_range_hits |-> flora_range,
     fauna_hits       |-> fauna,
     flora_hits       |-> flora,
     tables           |-> tables]

NoPage == Page(FALSE, <<>>, <<>>, <<>>, <<>>, <<>>)

\* Cell grids returned by table.extract()
HeaderRow == <<"a", "b">>
DataRow   == <<"x", "y">>

UpperHeaderData == Table(20, 40, <<HeaderRow, DataRow>>)   \* a header row and a data row
UpperOneColumn  == Table(20, 40, << <<"x">> >>)           \* one column
UpperTwice      == Table(20, 40, << <<"a", "a">>, DataRow >>) \* a column name occurs twice
UpperEmpty      == Table(20, 40, <<>>)                     \* nothing extracted
LowerDataHeader == Table(60, 80, <<DataRow, HeaderRow>>)   \* the header row repeated after the data
LowerThree      == Table(60, 80, << <<"a", "b", "x">> >>)  \* three columns

\* Tables of a page, in reading order: at most one in the upper half of the
\* page and at most one in the lower half
StitchTables ==
    { <<>>,
      <<UpperHeaderData>>, <<UpperOneColumn>>, <<UpperTwice>>, <<UpperEmpty>>,
      <<LowerDataHeader>>, <<LowerThree>>,
      <<UpperHeaderData, LowerDataHeader>>,
      <<UpperHeaderData, LowerThree>>,
      <<UpperOneColumn, LowerDataHeader>> }

\* Headings of a page: none; fauna; fauna above flora_range (a range heading
\* also matches the plain pattern of its kind)
StitchHeadings ==
    { <<FALSE, <<>>, <<>>, <<>>, <<>> >>,
      <<TRUE, <<>>, <<>>, <<Hit(10, 12)>>, <<>> >>,
      <<TRUE, <<>>, <<Hit(50, 52)>>, <<Hit(10, 12)>>, <<Hit(50, 52)>> >> }

StitchPages ==
    {Page(h[1], h[2], h[3], h[4], h[5], t) : h \in StitchHeadings, t \in StitchTables}

\* A first page laid out freely: each heading pattern is found once or not at
\* all, at tops 4, 5 and 20 units below the first; the page holds one table,
\* or two, placed on, inside, above and across the bands of those headings
HitA == Hit(10, 12)
HitB == Hit(14, 16)
HitC == Hit(15, 17)
HitD == Hit(30, 32)

GeomRangeHits == {<<>>, <<HitA>>}

GeomPlainHits == {<<>>, <<HitA>>, <<HitB>>, <<HitC>>, <<HitD>>}

Tagged(top, bottom, tag) == Table(top, bottom, <<HeaderRow, <<"x", tag>> >>)

GeomTables ==
    { <<>>,
      <<Tagged(12, 30, "t1")>>,      \* from HitA's bottom to HitD's top
      <<Tagged(17, 29, "t2")>>,      \* below every heading but HitD
      <<Tagged(5, 9, "t3")>>,        \* above every heading
      <<Tagged(20, 40, "t4")>>,      \* across HitD
      <<Tagged(32, 100, "t5")>>,     \* from HitD's bottom to the page bottom
      <<Tagged(12, 30, "t1"), Tagged(32, 100, "t5")>>,
      <<Tagged(5, 9, "t3"), Tagged(17, 29, "t2")>> }

GeomPages ==
    {Page(v, fr, lr, f, l, t) :
        v \in BOOLEAN, fr \in GeomRangeHits, lr \in GeomRangeHits,
        f \in GeomPlainHits, l \in GeomPlainHits, t \in GeomTables}

----------------------------------------------------------------------------
(* The page scan of extract_nvr_tables *)

\* the locals of extract_nvr_tables before the first page
ScanLocals ==
    /\ page_num = 0
    /\ page = NoPage
    /\ headers_on_page = <<>>
    /\ outputs = InitOutputs
    /\ last_section_type = None
    /\ tables_data = <<>>
    /\ cleared_at = 0
    /\ exception = Absent

\* extract_nvr_tables is entered on an open document
Init ==
    /\ pc = "scan"
    /\ ScanLocals
    /\ caller = "core"
    /\ pdf = "open"
    /\ request = Absent
    /\ response = Absent
    /\ result = Absent
    /\ output_file = Absent
    /\ exit_code = Absent

\* ReadPage with the bug "the loop does not advance to the next page"
ReadPageAgain(pg) ==
    /\ page' = pg
    /\ page_num' = page_num
    /\ headers_on_page' = HeadersOnPage(pg)

\* one iteration of the page loop begins: the page is read, its headings found
ReadPage(pg) ==
    /\ page' = pg
    /\ page_num' = page_num + 1
    /\ headers_on_page' = HeadersOnPage(pg)

\* "if headers_on_page:"
HeadingPage(Pages, max_pages) ==
    /\ pc = "scan"
    /\ page_num < max_pages
    /\ \E pg \in Pages :
        /\ HeadersOnPage(pg) # <<>>
        /\ ReadPage(pg)
        /\ outputs' = HeadingLoop(outputs, HeadersOnPage(pg), 1, pg, page_num + 1)
        /\ last_section_type' = HeadersOnPage(pg)[Len(HeadersOnPage(pg))].type
    /\ cleared_at' = 0
    /\ UNCHANGED <<pc, tables_data, exception, driver>>

\* "elif last_section_type and tables_on_page:"
ContinuationPage(Pages, max_pages) ==
    /\ pc = "scan"
    /\ page_num < max_pages
    /\ RunningSection(last_section_type) # None
    /\ \E pg \in Pages :
        /\ HeadersOnPage(pg) = <<>>
        /\ pg.tables # <<>>
        /\ ReadPage(pg)
        /\ LET running == RunningSection(last_section_type)
               section == outputs[running]
           IN  IF Truthy(section.header)
               THEN LET r == ContinuationLoop(section, last_section_type, pg.tables, 1,
                                              section.header[1], page_num + 1)
                    IN  /\ outputs' = [outputs EXCEPT ![running] = r.section]
                        /\ last_section_type' = r.last
                        /\ cleared_at' = IF r.broke THEN page_num + 1 ELSE cleared_at
               ELSE /\ outputs' = outputs
                    /\ last_section_type' = None
                    /\ cleared_at' = cleared_at
    /\ UNCHANGED <<pc, tables_data, exception, driver>>

\* SkipPage with the bug "a page without headings and tables ends the
\* running section"
SkipPageClears(Pages, max_pages) ==
    /\ pc = "scan"
    /\ page_num < max_pages
    /\ \E pg \in Pages :
        /\ HeadersOnPage(pg) = <<>>
        /\ ~(RunningSection(last_section_type) # None /\ pg.tables # <<>>)
        /\ ReadPage(pg)
    /\ last_section_type' = None
    /\ UNCHANGED <<pc, outputs, tables_data, cleared_at, exception, driver>>

\* neither branch: the page contributes nothing
SkipPage(Pages, max_pages) ==
    /\ pc = "scan"
    /\ page_num < max_pages
    /\ \E pg \in Pages :
        /\ HeadersOnPage(pg) = <<>>
        /\ ~(RunningSection(last_section_type) # None /\ pg.tables # <<>>)
        /\ ReadPage(pg)
    /\ UNCHANGED <<pc, outputs, last_section_type, tables_data, cleared_at, exception,
                   driver>>

\* what a call of the PDF library raises: the code attaches nothing to it
LibraryError == [type |-> "Exception", context |-> Absent]

\* None.lower() in the normalizer
NormalizerError == [type |-> "AttributeError", context |-> Absent]

\* "except Exception as e: ... raise": the exception that leaves
\* extract_nvr_tables when e was raised while page pn was processed
Reraise(e, pn) == e

AfterPageErrorContinue == "scan"

\* where control is once a page has raised: out of the loop and the function
AfterPageError == "raised"

\* a library call on the next page raises (find_tables, search, extract); the
\* accumulators are locals and are lost with the frame
RaiseOnPage(max_pages) ==
    /\ pc = "scan"
    /\ page_num < max_pages
    /\ page_num' = page_num + 1
    /\ pc' = AfterPageError
    /\ exception' = <<Reraise(LibraryError, page_num + 1)>>
    /\ UNCHANGED <<page, headers_on_page, outputs, last_section_type, tables_data,
                   cleared_at, driver>>

\* after the last page: the sections become OutputTables, or the normalizer raises
Finish ==
    /\ pc = "scan"
    /\ LET r == Assemble(outputs, 1, <<>>)
       IN  /\ pc' = IF r.raised THEN "raised" ELSE "done"
           /\ tables_data' = IF r.raised THEN <<>> ELSE r.tables
           /\ outputs' = r.outs
           /\ exception' = IF r.raised THEN <<Reraise(NormalizerError, page_num)>>
                           ELSE exception
    /\ UNCHANGED <<page_num, page, headers_on_page, last_section_type, cleared_at, driver>>

Next ==
    \/ HeadingPage(StitchPages, MaxPages)
    \/ ContinuationPage(StitchPages, MaxPages)
    \/ SkipPage(StitchPages, MaxPages)
    \/ RaiseOnPage(MaxPages)
    \/ Finish

Spec == Init /\ [][Next]_vars

\* Documents whose first page is laid out freely
NextGeom ==
    \/ HeadingPage(GeomPages, 1)
    \/ SkipPage(GeomPages, 1)
    \/ HeadingPage(StitchPages, MaxGeomPages)
    \/ ContinuationPage(StitchPages, MaxGeomPages)
    \/ SkipPage(StitchPages, MaxGeomPages)
    \/ RaiseOnPage(MaxGeomPages)
    \/ Finish

SpecGeom == Init /\ [][NextGeom]_vars

----------------------------------------------------------------------------
(* Runs of the scan to their end.  The scan is one sequential loop: while a *)
(* step is possible, one is taken.                                          *)

\* pages of the document in these runs
MaxTermPages == 3

\* an empty page; a fauna heading over no table, one table and two tables;
\* headerless pages whose table matches the fauna header, and does not
TermPages ==
    { NoPage,
      Page(TRUE, <<>>, <<>>, <<Hit(10, 12)>>, <<>>, <<>>),
      Page(TRUE, <<>>, <<>>, <<Hit(10, 12)>>, <<>>, <<UpperHeaderData>>),
      Page(TRUE, <<>>, <<>>, <<Hit(10, 12)>>, <<>>, <<UpperHeaderData, LowerThree>>),
      Page(FALSE, <<>>, <<>>, <<>>, <<>>, <<UpperHeaderData>>),
      Page(FALSE, <<>>, <<>>, <<>>, <<>>, <<UpperOneColumn>>) }

NextTerm ==
    \/ HeadingPage(TermPages, MaxTermPages)
    \/ ContinuationPage(TermPages, MaxTermPages)
    \/ SkipPage(TermPages, MaxTermPages)
    \/ RaiseOnPage(MaxTermPages)
    \/ Finish

SpecTerm == Init /\ [][NextTerm]_vars /\ WF_vars(NextTerm)

----------------------------------------------------------------------------
(* The row normalizer on its own: the scan ends with one section filled *)

\* header rows: three names, one a date column; a name twice; a None name
NormHeaders == { <<"a", "b", "Date">>, <<"a", "a", "b">>, <<None, "b">> }

\* rows of one to five cells, with padded strings, empty cells and dates
NormRows ==
    { <<"x">>,
      <<" x", "y ">>,
      <<"x", "", "15/01/2024">>,
      <<"x", None, "unknown", "z">>,
      <<"", "y", "2024-01-15", "z", "w">> }

NormRowLists == UNION {[1..n -> NormRows] : n \in 1..MaxNormRows}

\* the accumulators after a one-page scan that filled the fauna section
NormOutputs ==
    {[InitOutputs EXCEPT !["fauna"] = [rows |-> rows, header |-> <<header>>,
                                        page_numbers |-> <<1>>]] :
        header \in NormHeaders, rows \in NormRowLists}

InitNorm ==
    /\ pc = "scan"
    /\ page_num = 1
    /\ page = NoPage
    /\ headers_on_page = <<>>
    /\ outputs \in NormOutputs
    /\ last_section_type = "fauna"
    /\ tables_data = <<>>
    /\ cleared_at = 0
    /\ exception = Absent
    /\ caller = "core"
    /\ pdf = "open"
    /\ request = Absent
    /\ response = Absent
    /\ result = Absent
    /\ output_file = Absent
    /\ exit_code = Absent

NextNorm == Finish

SpecNorm == InitNorm /\ [][NextNorm]_vars

----------------------------------------------------------------------------
(* The command-line driver main().  Writing output_path is taken to succeed. *)

\* pages of the document in the runs of the two callers
MaxDriverPages == 2

\* len(sys.argv)
ArgCounts == {2, 3, 4}

\* len(page.find_tables()) with the default settings, in the diagnostics
DiagCounts == {0, 1}

\* the result dict; a key it does not hold is Absent
ResultDict(success, tables, table_count, debug_info, error) ==
    [success     |-> success,
     tables      |-> tables,
     table_count |-> table_count,
     debug_info  |-> debug_info,
     error       |-> error]

InitCli ==
    /\ pc = "cli_start"
    /\ ScanLocals
    /\ caller = "cli"
    /\ pdf = "none"
    /\ request = Absent
    /\ response = Absent
    /\ result = Absent
    /\ output_file = Absent
    /\ exit_code = Absent

scan == <<page_num, page, headers_on_page, outputs, last_section_type, tables_data,
          cleared_at>>

\* "if len(sys.argv) not in [3, 4]: ... sys.exit(1)"
CliStart ==
    /\ pc = "cli_start"
    /\ \E argc \in ArgCounts :
        IF argc \notin {3, 4}
        THEN pc' = "exited" /\ exit_code' = <<1>>
        ELSE pc' = "cli_enter" /\ exit_code' = exit_code
    /\ UNCHANGED <<scan, exception, caller, pdf, request, response, result, output_file>>

\* "with NVRPDFExtractor(...) as extractor:": __enter__ opens the document,
\* or pdfplumber.open raises
CliEnter ==
    /\ pc = "cli_enter"
    /\ \/ pdf' = "open" /\ pc' = "scan" /\ exception' = exception
       \/ pdf' = pdf /\ pc' = "cli_except" /\ exception' = <<LibraryError>>
    /\ UNCHANGED <<scan, caller, request, response, result, output_file, exit_code>>

\* the with block is left, by return or by exception: __exit__ closes the document
CliLeave ==
    /\ caller = "cli"
    /\ pc \in {"done", "raised"}
    /\ pdf' = "closed"
    /\ pc' = IF pc = "done" THEN "cli_result" ELSE "cli_except"
    /\ UNCHANGED <<scan, exception, caller, request, response, result, output_file,
                   exit_code>>

\* the result dict is built and dumped to output_path
CliWriteResult ==
    /\ pc = "cli_result"
    /\ result' = <<ResultDict(TRUE, tables_data, <<Len(tables_data)>>, Absent, Absent)>>
    /\ output_file' = result'
    /\ pc' = IF Len(tables_data) = 0 THEN "cli_diagnose" ELSE "cli_end"
    /\ UNCHANGED <<scan, exception, caller, pdf, request, response, exit_code>>

\* "if len(tables) == 0:": every page of extractor.pdf is searched again,
\* after the with block has closed the document.  What a closed document
\* yields is not defined: the pages are served from what the library still
\* holds, or a call raises.  The dict in memory is updated, the file is not.
CliDiagnose ==
    /\ pc = "cli_diagnose"
    /\ \/ \E counts \in [1..page_num -> DiagCounts] :
            /\ result' = <<ResultDict(FALSE, tables_data, <<Len(tables_data)>>,
                                      <<[total_pages |-> page_num,
                                         tables_found_per_page |-> counts]>>,
                                      <<"No species data tables found in PDF">>)>>
            /\ pc' = "cli_end"
            /\ exception' = exception
       \/ /\ result' = [result EXCEPT ![1].debug_info =
                            <<[total_pages |-> page_num, tables_found_per_page |-> <<>>]>>]
          /\ pc' = "cli_except"
          /\ exception' = <<LibraryError>>
    /\ UNCHANGED <<scan, caller, pdf, request, response, output_file, exit_code>>

\* main() returns
CliEnd ==
    /\ pc = "cli_end"
    /\ pc' = "exited"
    /\ exit_code' = <<0>>
    /\ UNCHANGED <<scan, exception, caller, pdf, request, response, result, output_file>>

\* "except Exception as e:": the error result is written, "sys.exit(1)"
CliExcept ==
    /\ pc = "cli_except"
    /\ output_file' = <<ResultDict(FALSE, <<>>, Absent, Absent, <<exception[1].type>>)>>
    /\ pc' = "exited"
    /\ exit_code' = <<1>>
    /\ UNCHANGED <<scan, exception, caller, pdf, request, response, result>>

NextCli ==
    \/ CliStart
    \/ CliEnter
    \/ HeadingPage(StitchPages, MaxDriverPages)
    \/ ContinuationPage(StitchPages, MaxDriverPages)
    \/ SkipPage(StitchPages, MaxDriverPages)
    \/ RaiseOnPage(MaxDriverPages)
    \/ Finish
    \/ CliLeave
    \/ CliWriteResult
    \/ CliDiagnose
    \/ CliEnd
    \/ CliExcept

SpecCli == InitCli /\ [][NextCli]_vars

----------------------------------------------------------------------------
(* The HTTP handler extractPdfTables.  The temporary file it downloads to  *)
(* is not part of the model.                                               *)

\* str.startswith
StartsWith(s, prefix) ==
    Len(s) >= Len(prefix) /\ SubSeq(s, 1, Len(prefix)) = prefix

\* s.split(sep, 1): the parts, one or two
SplitOnce(s, sep) ==
    IF \E i \in DOMAIN s : s[i] = sep
    THEN LET i == CHOOSE i \in DOMAIN s : s[i] = sep /\ \A j \in 1..(i - 1) : s[j] # sep
         IN  <<SubSeq(s, 1, i - 1), SubSeq(s, i + 1, Len(s))>>
    ELSE <<s>>

GsPrefix == <<"g", "s", ":", "/", "/">>

HttpPrefix == <<"h", "t", "t", "p">>

\* gs://b/o, gs://b, http://h, ftp://h, C:/f and the empty string
FileUrls ==
    { GsPrefix \o <<"b", "/", "o">>,
      GsPrefix \o <<"b">>,
      HttpPrefix \o <<":", "/", "/", "h">>,
      <<"f", "t", "p", ":", "/", "/", "h">>,
      <<"C", ":", "/", "f">>,
      <<>> }

\* request.get_json(silent=True): nothing, {}, a body without fileUrl, a body
\* with fileUrl; others counts the keys other than fileUrl
Requests ==
    {Absent, <<[fileUrl |-> Absent, others |-> 0]>>, <<[fileUrl |-> Absent, others |-> 1]>>}
    \cup {<<[fileUrl |-> <<url>>, others |-> 1]>> : url \in FileUrls}

\* "not request_json": None or an empty dict
NoBody(request_json) ==
    request_json = Absent
    \/ (request_json[1].fileUrl = Absent /\ request_json[1].others = 0)

\* "not file_url": no key, or the empty string
NoFileUrl(request_json) ==
    request_json[1].fileUrl = Absent \/ request_json[1].fileUrl[1] = <<>>

\* the check of download_from_gcs: "len(path_parts) != 2" raises ValueError
GcsUrlInvalid(gs_url) ==
    ~StartsWith(gs_url, GsPrefix)
    \/ Len(SplitOnce(SubSeq(gs_url, 6, Len(gs_url)), "/")) # 2

ValueError == [type |-> "ValueError", context |-> Absent]

Response(code, status, tables) == <<[code |-> code, status |-> status, tables |-> tables]>>

InitHttp ==
    /\ pc = "http_start"
    /\ ScanLocals
    /\ caller = "http"
    /\ pdf = "none"
    /\ request \in Requests
    /\ response = Absent
    /\ result = Absent
    /\ output_file = Absent
    /\ exit_code = Absent

\* the request is parsed: lines 40-49
HttpParse ==
    /\ pc = "http_start"
    /\ IF NoBody(request) \/ NoFileUrl(request)
       THEN /\ response' = Response(400, "error", <<>>)
            /\ pc' = "responded"
       ELSE /\ response' = response
            /\ pc' = "http_download"
    /\ UNCHANGED <<scan, exception, caller, pdf, request, result, output_file, exit_code>>

\* the file is fetched by the scheme of its URL: lines 60-67, download_from_gcs
\* and download_from_url; the storage client or requests may raise, and the
\* ValueError of download_from_gcs goes to the outer "except Exception"
HttpDownload ==
    /\ pc = "http_download"
    /\ LET file_url == request[1].fileUrl[1]
       IN  IF StartsWith(file_url, GsPrefix)
           THEN IF GcsUrlInvalid(file_url)
                THEN /\ pc' = "http_except"
                     /\ exception' = <<ValueError>>
                     /\ response' = response
                ELSE \/ pc' = "http_enter" /\ exception' = exception /\ response' = response
                     \/ pc' = "http_except" /\ exception' = <<LibraryError>>
                        /\ response' = response
           ELSE IF StartsWith(file_url, HttpPrefix)
           THEN \/ pc' = "http_enter" /\ exception' = exception /\ response' = response
                \/ pc' = "http_except" /\ exception' = <<LibraryError>> /\ response' = response
           ELSE /\ pc' = "responded"
                /\ exception' = exception
                /\ response' = Response(400, "error", <<>>)
    /\ UNCHANGED <<scan, caller, pdf, request, result, output_file, exit_code>>

\* "with NVRPDFExtractor(temp_path, document_type) as extractor:"
HttpEnter ==
    /\ pc = "http_enter"
    /\ \/ pdf' = "open" /\ pc' = "scan" /\ exception' = exception
       \/ pdf' = pdf /\ pc' = "http_except" /\ exception' = <<LibraryError>>
    /\ UNCHANGED <<scan, caller, request, response, result, output_file, exit_code>>

\* the with block is left: __exit__ closes the document; after a return the
\* response is built from the tables
HttpLeave ==
    /\ caller = "http"
    /\ pc \in {"done", "raised"}
    /\ pdf' = "closed"
    /\ IF pc = "done"
       THEN /\ response' = Response(200, IF Len(tables_data) = 0 THEN "completed_no_tables"
                                         ELSE "completed", tables_data)
            /\ pc' = "responded"
       ELSE /\ response' = response
            /\ pc' = "http_except"
    /\ UNCHANGED <<scan, exception, caller, request, result, output_file, exit_code>>

\* the outer "except Exception as e:"
HttpExcept ==
    /\ pc = "http_except"
    /\ response' = Response(500, "failed", <<>>)
    /\ pc' = "responded"
    /\ UNCHANGED <<scan, exception, caller, pdf, request, result, output_file, exit_code>>

NextHttp ==
    \/ HttpParse
    \/ HttpDownload
    \/ HttpEnter
    \/ HeadingPage(StitchPages, MaxDriverPages)
    \/ ContinuationPage(StitchPages, MaxDriverPages)
    \/ SkipPage(StitchPages, MaxDriverPages)
    \/ RaiseOnPage(MaxDriverPages)
    \/ Finish
    \/ HttpLeave
    \/ HttpExcept

SpecHttp == InitHttp /\ [][NextHttp]_vars

----------------------------------------------------------------------------
(* Vocabulary of the properties *)

\* a step of the page loop
PageStep == pc = "scan" /\ pc' = "scan" /\ page_num' = page_num + 1

\* the searches of the page yield no heading
NoHeadingHits(pg) ==
    \/ ~pg.verified_records
    \/ /\ pg.fauna_range_hits = <<>>
       /\ pg.flora_range_hits = <<>>
       /\ pg.fauna_hits = <<>>
       /\ pg.flora_hits = <<>>

SameWidth(table, header) ==
    table.content # <<>> /\ Len(table.content[1]) = Len(header)

\* the rows of tables 1..n, in order, without the rows equal to header
RECURSIVE RowsOfTables(_, _, _)
RowsOfTables(tables, n, header) ==
    IF n = 0 THEN <<>>
    ELSE RowsOfTables(tables, n - 1, header)
         \o SelectSeq(tables[n].content, LAMBDA row : row # header)

\* n times the page number pn
RECURSIVE Repeat(_, _)
Repeat(pn, n) == IF n = 0 THEN <<>> ELSE Append(Repeat(pn, n - 1), pn)

\* the OutputTables the scan returns when the document ends after outs
OutputTablesOf(outs, name) ==
    LET out == Assemble(outs, 1, <<>>).tables
    IN  {out[i] : i \in {j \in DOMAIN out : out[j].tableName = name}}

----------------------------------------------------------------------------
(* C1: cross-page continuation.  Page p has headings, S is the running       *)
(* section and holds one table of page p only; page p+1 has no heading hits  *)
(* and at least one table, each as wide as S's header.  Then the rows of     *)
(* those tables other than S's header are appended to S in order, p+1 is in  *)
(* S's page list, and the output holds a single table for S with pageNumber  *)
(* <<p, p+1>>.                                                               *)

C1_Case(S) ==
    /\ PageStep
    /\ page_num >= 1
    /\ ~NoHeadingHits(page)
    /\ last_section_type = S
    /\ Truthy(outputs[S].header)
    /\ outputs[S].page_numbers = <<page_num>>
    /\ NoHeadingHits(page')
    /\ page'.tables # <<>>
    /\ \A k \in DOMAIN page'.tables : SameWidth(page'.tables[k], outputs[S].header[1])

C1_Effect(S) ==
    /\ outputs'[S].rows =
           outputs[S].rows
           \o RowsOfTables(page'.tables, Len(page'.tables), outputs[S].header[1])
    /\ page_num' \in Range(outputs'[S].page_numbers)
    /\ outputs'[S].rows # <<>> =>
           /\ Cardinality(OutputTablesOf(outputs', S)) = 1
           /\ \A t \in OutputTablesOf(outputs', S) : t.pageNumber = <<page_num, page_num'>>

C1_CrossPageContinuation ==
    [][\A S \in SectionTypes : C1_Case(S) => C1_Effect(S)]_vars

----------------------------------------------------------------------------
(* C2: a mismatching table on a headerless page.  The running section S has *)
(* a header and some table of the page is empty or differs in width from    *)
(* that header.                                                             *)

C2_Case(S) ==
    /\ PageStep
    /\ last_section_type = S
    /\ Truthy(outputs[S].header)
    /\ NoHeadingHits(page')
    /\ page'.tables # <<>>
    /\ \E k \in DOMAIN page'.tables : ~SameWidth(page'.tables[k], outputs[S].header[1])

FirstMismatch(tables, header) ==
    CHOOSE m \in DOMAIN tables :
        /\ ~SameWidth(tables[m], header)
        /\ \A j \in 1..(m - 1) : SameWidth(tables[j], header)

\* C2, as claimed: the page adds no rows and no page number to any Section,
\* wherever the mismatching table stands, and the running section is cleared
C2_MismatchContributesNothing ==
    [][\A S \in SectionTypes :
          C2_Case(S) => outputs' = outputs /\ last_section_type' = None]_vars

\* C2, amended: the tables before the first mismatching table are absorbed
\* into S, that table and the later ones contribute nothing, no other Section
\* changes, and the running section is cleared
C2_MismatchStopsContinuation ==
    [][\A S \in SectionTypes :
          C2_Case(S) =>
              LET header == outputs[S].header[1]
                  m      == FirstMismatch(page'.tables, header)
              IN  /\ outputs'[S].rows =
                         outputs[S].rows \o RowsOfTables(page'.tables, m - 1, header)
                  /\ outputs'[S].page_numbers =
                         outputs[S].page_numbers \o Repeat(page_num', m - 1)
                  /\ outputs'[S].header = outputs[S].header
                  /\ \A T \in SectionTypes \ {S} : outputs'[T] = outputs[T]
                  /\ last_section_type' = None]_vars

\* a matching table followed by a mismatching one has been processed
C2_Witness ==
    /\ pc = "scan"
    /\ cleared_at = page_num
    /\ Len(page.tables) = 2
    /\ last_section_type = None
    /\ \E S \in SectionTypes :
          /\ Truthy(outputs[S].header)
          /\ SameWidth(page.tables[1], outputs[S].header[1])
          /\ ~SameWidth(page.tables[2], outputs[S].header[1])
          /\ outputs[S].page_numbers[Len(outputs[S].page_numbers)] = page_num

----------------------------------------------------------------------------
(* C3: once a mismatching table has cleared the running section, every      *)
(* later page without heading hits leaves the four Sections unchanged and   *)
(* the running section cleared, until a page with headings is processed.    *)

C3_ClearedStaysCleared ==
    [][(PageStep /\ cleared_at > 0 /\ NoHeadingHits(page')) =>
          /\ outputs' = outputs
          /\ last_section_type' = None
          /\ cleared_at' = cleared_at]_vars

\* after the clearing page, a headerless page whose tables are as wide as a
\* stored header has been processed
C3_Witness ==
    /\ pc = "scan"
    /\ cleared_at > 0
    /\ page_num > cleared_at
    /\ NoHeadingHits(page)
    /\ page.tables # <<>>
    /\ \E S \in SectionTypes :
          /\ Truthy(outputs[S].header)
          /\ outputs[S].page_numbers # <<>>
          /\ \A k \in DOMAIN page.tables : SameWidth(page.tables[k], outputs[S].header[1])

----------------------------------------------------------------------------
(* C4: a page without heading hits, processed while no section is running,  *)
(* changes neither a Section nor the running-section state.                 *)

C4_HeaderlessNoRunningIsNoOp ==
    [][(PageStep /\ last_section_type = None /\ NoHeadingHits(page')) =>
          /\ outputs' = outputs
          /\ last_section_type' = None]_vars

\* the first page of a document had tables and no heading hits
C4_Witness ==
    /\ pc = "scan"
    /\ page_num = 1
    /\ last_section_type = None
    /\ NoHeadingHits(page)
    /\ Len(page.tables) = 2
    /\ outputs = InitOutputs

----------------------------------------------------------------------------
(* C8: a Section's header is set once.  It starts null; it is set, on a     *)
(* page with headings, to the first row of the first non-empty table        *)
(* attributed to the Section; once set it has the same value after every    *)
(* later step, under a heading, by continuation and at the end of the scan. *)

\* the (heading, table) pairs of a page that attribute a non-empty table to S
AttributedTo(S, hs, pg) ==
    {p \in (DOMAIN hs) \X (DOMAIN pg.tables) :
        /\ hs[p[1]].type = S
        /\ pg.tables[p[2]].content # <<>>
        /\ pg.tables[p[2]].bbox[2] >= hs[p[1]].bottom
        /\ pg.tables[p[2]].bbox[4] <=
               (IF p[1] < Len(hs) THEN hs[p[1] + 1].top ELSE pg.height)}

\* the first of them in the order of the two loops
FirstAttributed(S, hs, pg) ==
    CHOOSE p \in AttributedTo(S, hs, pg) :
        \A q \in AttributedTo(S, hs, pg) :
            p[1] < q[1] \/ (p[1] = q[1] /\ p[2] <= q[2])

C8_HeaderSetOnce ==
    /\ \A S \in SectionTypes : outputs[S].header = NoHeader
    /\ [][\A S \in SectionTypes :
             /\ outputs[S].header # NoHeader => outputs'[S].header = outputs[S].header
             /\ (outputs[S].header = NoHeader /\ outputs'[S].header # NoHeader) =>
                    /\ PageStep
                    /\ AttributedTo(S, headers_on_page', page') # {}
                    /\ outputs'[S].header =
                           << page'.tables[FirstAttributed(S, headers_on_page', page')[2]]
                                  .content[1] >>
             /\ (PageStep /\ outputs[S].header = NoHeader
                          /\ AttributedTo(S, headers_on_page', page') # {}) =>
                    outputs'[S].header # NoHeader]_vars

\* a Section with a header has received tables on the two following pages,
\* the last of them under a heading and with another first row
C8_Witness ==
    /\ pc = "scan"
    /\ Len(page.tables) = 1
    /\ page.tables[1].content # <<>>
    /\ \E S \in SectionTypes :
          /\ Truthy(outputs[S].header)
          /\ Len(outputs[S].page_numbers) = 3
          /\ outputs[S].page_numbers[1] = 1
          /\ outputs[S].page_numbers[2] = 2
          /\ outputs[S].page_numbers[3] = 3
          /\ headers_on_page # <<>>
          /\ page.tables[1].content[1] # outputs[S].header[1]

----------------------------------------------------------------------------
(* C9: during the page scan no row stored in a Section equals the Section's *)
(* header, for rows added under a heading and for rows added by             *)
(* continuation, also when the same page content is processed again.        *)

C9_NoHeaderRowInRows ==
    pc = "scan" =>
        \A S \in SectionTypes :
            outputs[S].header # NoHeader =>
                \A i \in DOMAIN outputs[S].rows : outputs[S].rows[i] # outputs[S].header[1]

\* a table holding the header row after a data row has been added to the
\* Section on a second page
C9_Witness ==
    /\ pc = "scan"
    /\ page_num >= 2
    /\ Len(page.tables) = 1
    /\ \E S \in SectionTypes :
          /\ Truthy(outputs[S].header)
          /\ outputs[S].page_numbers[Len(outputs[S].page_numbers)] = page_num
          /\ Len(page.tables[1].content) = 2
          /\ page.tables[1].content[2] = outputs[S].header[1]
          /\ outputs[S].rows[Len(outputs[S].rows)] = page.tables[1].content[1]

----------------------------------------------------------------------------
(* C10: every OutputTable has record_count = len(processed_data) =          *)
(* len(rows), and every processed record has exactly len(headers) entries,  *)
(* also for a header in which a column name occurs twice.                   *)

C10_RecordShape ==
    pc = "done" =>
        \A i \in DOMAIN tables_data :
            LET t == tables_data[i]
            IN  /\ t.record_count = Len(t.processed_data)
                /\ Len(t.processed_data) = Len(t.rows)
                /\ \A r \in DOMAIN t.processed_data :
                       Cardinality(DOMAIN t.processed_data[r]) = Len(t.headers)

----------------------------------------------------------------------------
(* Vocabulary of the band properties *)

Count(seq, x) == Cardinality({i \in DOMAIN seq : seq[i] = x})

\* the rows a step appends to Section S
NewRows(S) == SubSeq(outputs'[S].rows, Len(outputs[S].rows) + 1, Len(outputs'[S].rows))

NewPageNumbers(S) == Len(outputs'[S].page_numbers) - Len(outputs[S].page_numbers)

AllRows(pg) == UNION {Range(pg.tables[k].content) : k \in DOMAIN pg.tables}

\* how often the row x stands in the tables of the page
RECURSIVE CountInTables(_, _, _)
CountInTables(tables, n, x) ==
    IF n = 0 THEN 0 ELSE CountInTables(tables, n - 1, x) + Count(tables[n].content, x)

\* how often the row x stands in the tables of the (heading, table) pairs
RECURSIVE CountInPairs(_, _, _)
CountInPairs(pairs, pg, x) ==
    IF pairs = {} THEN 0
    ELSE LET p == CHOOSE q \in pairs : TRUE
         IN  Count(pg.tables[p[2]].content, x) + CountInPairs(pairs \ {p}, pg, x)

\* the bounding box of table k lies in [hs[i].bottom, hs[i+1].top], or in
\* [hs[i].bottom, page bottom] for the last heading
InClosedBand(hs, i, pg, k) ==
    /\ pg.tables[k].bbox[2] >= hs[i].bottom
    /\ pg.tables[k].bbox[4] <= (IF i < Len(hs) THEN hs[i + 1].top ELSE pg.height)

\* the bounding box of table k lies in [hs[i].bottom, hs[i+1].top), or in
\* [hs[i].bottom, page bottom] for the last heading
InHalfOpenBand(hs, i, pg, k) ==
    /\ pg.tables[k].bbox[2] >= hs[i].bottom
    /\ IF i < Len(hs) THEN pg.tables[k].bbox[4] < hs[i + 1].top
                      ELSE pg.tables[k].bbox[4] <= pg.height

\* the (heading, table) pairs with a heading of Section S and a non-empty
\* table in its half-open band
InHalfOpenBandOf(S, hs, pg) ==
    {p \in (DOMAIN hs) \X (DOMAIN pg.tables) :
        /\ hs[p[1]].type = S
        /\ pg.tables[p[2]].content # <<>>
        /\ InHalfOpenBand(hs, p[1], pg, p[2])}

\* a page with headings, each with top < bottom, is processed
HeadingStep ==
    /\ PageStep
    /\ headers_on_page' # <<>>
    /\ \A i \in DOMAIN headers_on_page' : headers_on_page'[i].top < headers_on_page'[i].bottom

----------------------------------------------------------------------------
(* C5: no cross-attribution.  On a page with headings no table lies in the  *)
(* band of two headings, no row is appended more often than it stands in    *)
(* the tables of the page, and a Section changes only if one of its own     *)
(* headings has a table in its band, also for a table whose edges are on    *)
(* the band boundaries.                                                     *)

C5_NoCrossAttribution ==
    [][HeadingStep =>
          /\ \A k \in DOMAIN page'.tables :
                Cardinality({i \in DOMAIN headers_on_page' :
                                InClosedBand(headers_on_page', i, page', k)}) <= 1
          /\ \A x \in AllRows(page') :
                  Count(NewRows("flora"), x) + Count(NewRows("fauna"), x)
                + Count(NewRows("flora_range"), x) + Count(NewRows("fauna_range"), x)
                <= CountInTables(page'.tables, Len(page'.tables), x)
          /\   NewPageNumbers("flora") + NewPageNumbers("fauna")
             + NewPageNumbers("flora_range") + NewPageNumbers("fauna_range")
             <= Len(page'.tables)
          /\ \A S \in SectionTypes :
                outputs'[S] # outputs[S] =>
                    \E i \in DOMAIN headers_on_page', k \in DOMAIN page'.tables :
                        /\ headers_on_page'[i].type = S
                        /\ InClosedBand(headers_on_page', i, page', k)]_vars

\* a table from the bottom of one heading to the top of the next heading of
\* another Section went to the upper heading's Section alone
C5_Witness ==
    /\ pc = "scan"
    /\ page_num = 1
    /\ Len(headers_on_page) = 2
    /\ headers_on_page[1].type # headers_on_page[2].type
    /\ Len(page.tables) = 1
    /\ page.tables[1].bbox[2] = headers_on_page[1].bottom
    /\ page.tables[1].bbox[4] = headers_on_page[2].top
    /\ outputs[headers_on_page[1].type].page_numbers = <<1>>
    /\ outputs[headers_on_page[2].type].page_numbers = <<>>

----------------------------------------------------------------------------
(* C6: band containment.  A non-empty table is attributed to the Section of *)
(* heading i exactly when its bounding box lies in the band of heading i.   *)

\* C6, as claimed: the band is [heading[i].bottom, heading[i+1].top)
C6_HalfOpenBand ==
    [][HeadingStep =>
          \A S \in SectionTypes :
              /\ NewPageNumbers(S) = Cardinality(InHalfOpenBandOf(S, headers_on_page', page'))
              /\ \A x \in AllRows(page') :
                    outputs'[S].header # <<x>> =>
                        Count(NewRows(S), x) =
                            CountInPairs(InHalfOpenBandOf(S, headers_on_page', page'), page', x)]_vars

\* C6, amended: the band is [heading[i].bottom, heading[i+1].top]
C6_ClosedBand ==
    [][HeadingStep =>
          \A S \in SectionTypes :
              /\ NewPageNumbers(S) = Cardinality(AttributedTo(S, headers_on_page', page'))
              /\ \A x \in AllRows(page') :
                    outputs'[S].header # <<x>> =>
                        Count(NewRows(S), x) =
                            CountInPairs(AttributedTo(S, headers_on_page', page'), page', x)]_vars

\* a table that ends exactly at the top of the second heading has been
\* attributed to the first heading: its first row is the header of that
\* Section and its other rows are the rows
C6_Witness ==
    /\ pc = "scan"
    /\ page_num = 1
    /\ Len(headers_on_page) = 2
    /\ Len(page.tables) = 1
    /\ page.tables[1].bbox[2] >= headers_on_page[1].bottom
    /\ page.tables[1].bbox[4] = headers_on_page[2].top
    /\ outputs[headers_on_page[1].type].header = <<page.tables[1].content[1]>>
    /\ outputs[headers_on_page[1].type].rows = Tail(page.tables[1].content)

----------------------------------------------------------------------------
(* C7: range versus plain.  On a page with 'Verified Records', when a plain *)
(* hit and a range hit of the same kind have tops less than 5 apart, the    *)
(* heading list holds no plain entry of that kind at the plain hit's top    *)
(* and, of that kind, exactly one entry within 5 of the range hit's top,    *)
(* which is the range entry.                                                *)

RangeType(kind) == IF kind = "fauna" THEN "fauna_range" ELSE "flora_range"

PlainHitsOf(pg, kind) == IF kind = "fauna" THEN pg.fauna_hits ELSE pg.flora_hits

RangeHitsOf(pg, kind) == IF kind = "fauna" THEN pg.fauna_range_hits ELSE pg.flora_range_hits

----------------------------------------------------------------------------
(* C11: column reconciliation.  With a header of n names, every row of the   *)
(* section yields one output row and one record, in input order; a row of    *)
(* k < n cells yields a row and a record whose first k values come from the  *)
(* row and whose last n - k values are null, a row of k > n cells yields its *)
(* first n values, a row of n cells is kept as it is.                        *)

\* the value a record holds for the c-th column of header
RecordValue(record, header, c) == record[header[c]]

C11_ColumnReconciliation ==
    [][pc = "scan" /\ pc' = "done" =>
        \A i \in DOMAIN tables_data' :
            LET t      == tables_data'[i]
                header == outputs[t.tableName].header[1]
                rows   == outputs[t.tableName].rows
                n      == Len(header)
            IN  /\ Len(t.rows) = Len(rows)
                /\ Len(t.processed_data) = Len(rows)
                /\ \A r \in DOMAIN rows :
                      LET k == Len(rows[r])
                      IN  /\ Len(t.rows[r]) = n
                          /\ \A c \in 1..n :
                                LET cell == IF c <= k THEN rows[r][c] ELSE None
                                IN  /\ t.rows[r][c] = cell
                                    /\ RecordValue(t.processed_data[r], header, c)
                                         = CleanValue(header[c], cell)]_vars

----------------------------------------------------------------------------
(* C12: the page list of a Section is a set.  Each page number occurs at   *)
(* most once in it, also when several tables of one page are attributed to *)
(* the Section, so no pageNumber of an OutputTable has a repeated entry.   *)

NoRepeatedEntry(list) == \A i, j \in DOMAIN list : list[i] = list[j] => i = j

C12_PageListIsASet ==
    /\ \A S \in SectionTypes : NoRepeatedEntry(outputs[S].page_numbers)
    /\ \A i \in DOMAIN tables_data : NoRepeatedEntry(tables_data[i].pageNumber)

----------------------------------------------------------------------------
(* C13: the no-data outcome of the command-line driver.  When the scan     *)
(* finishes without an exception and yields no OutputTable, the result at  *)
(* the output path has table_count 0, success false and a diagnostic       *)
(* payload with one table count per page, and the process does not end as  *)
(* a crash.                                                                *)

\* main() has ended after a scan that returned no table
NoDataRun == caller = "cli" /\ pc = "exited" /\ result # Absent /\ tables_data = <<>>

C13_NoDataOutcome ==
    NoDataRun =>
        /\ output_file # Absent
        /\ output_file[1].table_count = <<0>>
        /\ output_file[1].success = FALSE
        /\ output_file[1].debug_info # Absent
        /\ Len(output_file[1].debug_info[1].tables_found_per_page) = page_num
        /\ exit_code = <<0>>

----------------------------------------------------------------------------
(* C14: failure semantics of the scan.  If processing page p raises, the   *)
(* scan returns no tables and the exception reaches the caller; it is      *)
(* neither retried nor swallowed and no later page is processed.           *)

\* processing the next page raises
PageRaises == pc = "scan" /\ exception = Absent /\ exception' # Absent
              /\ page_num' = page_num + 1

\* the scan is over and no table is returned
ScanAborted == pc' = "raised" /\ tables_data' = <<>>

\* once raised, no page is processed and the caller's handler gets the exception
NothingAfterRaise ==
    pc = "raised" =>
        /\ UNCHANGED <<page_num, page, outputs, tables_data, exception>>
        /\ caller = "cli" => pc' = "cli_except"

\* C14 as claimed: the exception carries the page number p as context
C14_ExceptionCarriesPage ==
    [][/\ PageRaises => ScanAborted /\ exception'[1].context = <<page_num'>>
       /\ NothingAfterRaise]_vars

\* C14, corrected: the exception reaches the caller as it was raised, with
\* nothing attached to it
C14_ExceptionPropagatesUnchanged ==
    [][/\ PageRaises => ScanAborted /\ exception' = <<LibraryError>>
       /\ NothingAfterRaise]_vars

\* page 2 raised after page 1 had filled a section, and main() has caught it
C14_Witness ==
    /\ pc = "cli_except"
    /\ pdf = "closed"
    /\ page_num = 2
    /\ outputs["fauna"].rows # <<>>
    /\ tables_data = <<>>
    /\ exception = <<LibraryError>>

----------------------------------------------------------------------------
(* C15: HTTP input errors.  A request with no JSON body, without fileUrl,  *)
(* or with an invalid file URL (a scheme that is not supported, or a gs:// *)
(* URL with no object path) is answered with status 400, and the extractor *)
(* is never invoked.                                                       *)

\* the URL names no supported scheme
UnsupportedScheme(url) == ~StartsWith(url, GsPrefix) /\ ~StartsWith(url, HttpPrefix)

\* a gs:// URL that names a bucket only
GsWithoutObject(url) ==
    /\ StartsWith(url, GsPrefix)
    /\ \A i \in DOMAIN url : i > Len(GsPrefix) => url[i] # "/"

InputError(req) ==
    \/ req = Absent
    \/ req[1].fileUrl = Absent
    \/ UnsupportedScheme(req[1].fileUrl[1])
    \/ GsWithoutObject(req[1].fileUrl[1])

C15_InputErrorsAre400 ==
    (caller = "http" /\ pc = "responded" /\ InputError(request)) =>
        response[1].code = 400 /\ pdf = "none"

----------------------------------------------------------------------------
(* C16: heading deduplication across kinds.  Every plain-pattern hit whose *)
(* top is within 5 units of any range-pattern hit, of its own kind or of   *)
(* the other kind, is discarded.                                           *)

\* the heading list holds a plain heading of this kind at the top of hit
PlainRetained(kind, hit) ==
    \E i \in DOMAIN headers_on_page :
        headers_on_page[i].type = kind /\ headers_on_page[i].top = hit.top

NearSome(hit, hits) == \E r \in Range(hits) : Abs(hit.top - r.top) < 5

\* C16 as claimed: the range hits of both kinds discard a plain hit
C16_AnyRangeDiscards ==
    page.verified_records =>
        \A kind \in {"fauna", "flora"} : \A h \in Range(PlainHitsOf(page, kind)) :
            NearSome(h, page.fauna_range_hits \o page.flora_range_hits)
                => ~PlainRetained(kind, h)

\* C16, corrected: a plain hit is discarded exactly when a range hit of its
\* own kind is within 5 units of it; a range hit of the other kind does not
\* discard it
C16_SameKindRangeDiscards ==
    page.verified_records =>
        \A kind \in {"fauna", "flora"} : \A h \in Range(PlainHitsOf(page, kind)) :
            PlainRetained(kind, h) <=> ~NearSome(h, RangeHitsOf(page, kind))

\* a plain fauna hit 4 units below a flora_range hit is a heading of the page
C16_Witness ==
    /\ pc = "scan"
    /\ page.verified_records
    /\ page.flora_range_hits = <<HitA>>
    /\ page.fauna_range_hits = <<>>
    /\ page.fauna_hits = <<HitB>>
    /\ \E i \in DOMAIN headers_on_page :
           headers_on_page[i].type = "fauna" /\ headers_on_page[i].top = HitB.top

----------------------------------------------------------------------------
(* C17: the running section after a page with headings.  The heading list  *)
(* used for the bands is in ascending order of top, and after the page the *)
(* running section is the type of the heading that is last in that order,  *)
(* the lowest on the page, whether or not a table was attributed to it.    *)

Ascending(hs) == \A i, j \in DOMAIN hs : i < j => hs[i].top <= hs[j].top

C17_LowestHeadingRuns ==
    (pc \in {"scan", "done"} /\ headers_on_page # <<>>) =>
        /\ Ascending(headers_on_page)
        /\ last_section_type = headers_on_page[Len(headers_on_page)].type
        /\ \A i \in DOMAIN headers_on_page :
               headers_on_page[i].top <= headers_on_page[Len(headers_on_page)].top

\* the search found fauna (top 30) before flora (top 10); the page's table is
\* in the flora band, none is below the fauna heading, and fauna is running
C17_Witness ==
    /\ pc = "scan"
    /\ page_num = 1
    /\ page.fauna_hits = <<HitD>>
    /\ page.flora_hits = <<HitA>>
    /\ page.fauna_range_hits = <<>>
    /\ page.flora_range_hits = <<>>
    /\ outputs["flora"].rows # <<>>
    /\ outputs["fauna"] = EmptySection
    /\ last_section_type = "fauna"

----------------------------------------------------------------------------
(* C18: a page with no table and no heading hit is skipped.  The four      *)
(* Sections and the running section are as before the page, so a running   *)
(* section that was active before it still absorbs a matching table of the *)
(* headerless page that follows.                                           *)

\* the page read by this step has no table and no heading hit
EmptyPageStep == PageStep /\ page'.tables = <<>> /\ NoHeadingHits(page')

\* the page read before this step was such a page, S ran before it, and this
\* step reads a headerless page whose tables all match S's header
AfterEmptyPage(S) ==
    /\ PageStep
    /\ page_num >= 2
    /\ page.tables = <<>>
    /\ NoHeadingHits(page)
    /\ last_section_type = S
    /\ Truthy(outputs[S].header)
    /\ NoHeadingHits(page')
    /\ page'.tables # <<>>
    /\ \A k \in DOMAIN page'.tables : SameWidth(page'.tables[k], outputs[S].header[1])

C18_EmptyPageIsSkipped ==
    [][/\ EmptyPageStep => UNCHANGED <<outputs, last_section_type>>
       /\ \A S \in SectionTypes :
            AfterEmptyPage(S) =>
                /\ outputs'[S].rows =
                       outputs[S].rows
                       \o RowsOfTables(page'.tables, Len(page'.tables), outputs[S].header[1])
                /\ page_num' \in Range(outputs'[S].page_numbers)
                /\ last_section_type' = S]_vars

\* fauna was filled on page 1, page 2 was empty, page 3 continued fauna
C18_Witness ==
    /\ pc = "scan"
    /\ page_num = 3
    /\ NoHeadingHits(page)
    /\ page.tables # <<>>
    /\ last_section_type = "fauna"
    /\ outputs["fauna"].page_numbers = <<1, 3>>

----------------------------------------------------------------------------
(* C19: termination of the scan.  Every run over a document of finitely    *)
(* many pages processes the pages one at a time in increasing page order,  *)
(* each at most once, and eventually finishes: it returns the OutputTables *)
(* after the last page, or it raises.                                      *)

ScanOver == pc \in {"done", "raised"}

C19_ScanTerminates ==
    /\ [][/\ (pc = "scan" /\ pc' = "scan") => page_num' = page_num + 1
          /\ page_num' \in {page_num, page_num + 1}
          /\ ScanOver => pc' = pc /\ page_num' = page_num]_vars
    /\ <>ScanOver

\* the tables are returned after the third page
C19_Witness ==
    /\ pc = "done"
    /\ page_num = 3
    /\ tables_data # <<>>
    /\ exception = Absent

----------------------------------------------------------------------------
(* C20: the opened document is never used after it is closed.  In every    *)
(* run of the command-line driver and of the HTTP handler, each access to  *)
(* a page happens between __enter__ and __exit__, also on the zero-table   *)
(* diagnostic path.                                                        *)

\* the scan reads the next page
ScanAccess == pc = "scan" /\ page_num' = page_num + 1

\* the diagnostics of main() read the pages of extractor.pdf
DiagnosticAccess == pc = "cli_diagnose" /\ pc' # pc

C20_NoUseAfterClose ==
    [][(ScanAccess \/ DiagnosticAccess) => pdf = "open"]_vars

----------------------------------------------------------------------------
(* C21: header before rows.  Between pages and at the end of the scan, a   *)
(* Section whose rows or page list is non-empty has a non-null header, so  *)
(* no row is appended before the header is adopted; and a headerless page  *)
(* that follows a heading whose Section has no header yet adds nothing and *)
(* clears the running section.                                             *)

HeaderBeforeRows ==
    \A S \in SectionTypes :
        (outputs[S].rows # <<>> \/ outputs[S].page_numbers # <<>>)
            => outputs[S].header # NoHeader

\* the running section has no header yet and the page read has no heading hit
HeaderlessAfterBareHeading ==
    /\ PageStep
    /\ last_section_type # None
    /\ outputs[last_section_type].header = NoHeader
    /\ NoHeadingHits(page')

\* C21 as claimed: every such page clears the running section
C21_HeaderlessPageClears ==
    /\ HeaderBeforeRows
    /\ [][/\ HeaderBeforeRows'
          /\ HeaderlessAfterBareHeading =>
                outputs' = outputs /\ last_section_type' = None]_vars

\* C21, corrected: such a page clears the running section when it holds a
\* table, and leaves it running when it holds none
C21_HeaderlessPageWithTablesClears ==
    /\ HeaderBeforeRows
    /\ [][/\ HeaderBeforeRows'
          /\ HeaderlessAfterBareHeading =>
                /\ outputs' = outputs
                /\ last_section_type' =
                       IF page'.tables # <<>> THEN None ELSE last_section_type]_vars

\* page 1 ended under a flora_range heading with no table, page 2 has tables
\* and no heading: nothing was added and no section runs
C21_Witness ==
    /\ pc = "scan"
    /\ page_num = 2
    /\ NoHeadingHits(page)
    /\ page.tables # <<>>
    /\ outputs["fauna"].page_numbers = <<1>>
    /\ outputs["flora_range"] = EmptySection
    /\ last_section_type = None
    /\ cleared_at = 0

----------------------------------------------------------------------------
(* C22: no header row in the output.  In every OutputTable, no entry of    *)
(* rows (the rows after padding and truncation to the header width) is     *)
(* equal to headers, also when a table under the heading has rows wider    *)
(* than the header.                                                        *)

C22_NoHeaderRowInOutput ==
    \A i \in DOMAIN tables_data :
        \A r \in DOMAIN tables_data[i].rows :
            tables_data[i].rows[r] # tables_data[i].headers

====
